---- MODULE Spec2Model ----
(***************************************************************************)
(* Bingo strip generator (vispa): generation of balanced strips, batch     *)
(* generation with card uniqueness, and strip validation, as implemented   *)
(* in src/src/App.tsx.                                                     *)
(*                                                                         *)
(* Arrays are TLA+ sequences (1-based); array index k of the source is     *)
(* position k + 1 here.  Card and column indices keep the source's 0-based *)
(* numbering wherever they index a function.                               *)
(***************************************************************************)
EXTENDS Integers, Sequences, FiniteSets, TLC

VARIABLES
    pc,         \* position of the running operation
    rnd,        \* outcome of the random source for the next generateBalancedStrip call
    strip,      \* value returned by generateBalancedStrip
    count,      \* generateStripsUnique: argument
    strips,     \* generateStripsUnique: local strips
    seen,       \* generateStripsUnique: local seen (set of signatures)
    guard,      \* generateStripsUnique: local guard
    generated,  \* generateStripsUnique: number of generateBalancedStrip calls made
    warned,     \* generateStripsUnique: console.warn was called
    result,     \* generateStripsUnique: returned list
    cand,       \* generateStripsUnique: local s of the latest iteration
    vstrip,     \* validateStrip: argument
    vres,       \* validateStrip: returned record
    edits,      \* number of edits applied to the argument of validateStrip
    hdigits,    \* generateUniqueHashes: argument digits
    hcount,     \* generateUniqueHashes: argument count
    hset,       \* generateUniqueHashes: local set, in insertion order
    hlast,      \* generateUniqueHashes: local n of the latest iteration
    hres,       \* generateUniqueHashes: returned array
    grids,      \* the grids ticketToGrid returned for the cards of strip
    qty,        \* App state qty, a number <<numerator, denominator>>
    validityDate,   \* App state validityDate
    appStrips,      \* App state strips
    stripValidity,  \* App state stripValidity
    stripHashes,    \* App state stripHashes
    target,     \* handleGenerate: local target of the latest call
    caller,     \* who called generateUniqueHashes
    uiError,    \* the handler or effect whose error was the latest uncaught one
    gticket,    \* ticketToGrid: argument
    gcol,       \* ticketToGrid: loop variable c
    gidx,       \* ticketToGrid: position of the inner loop in colVals
    ggrid,      \* ticketToGrid: locals rows and rowCounts
    gplaced,    \* ticketToGrid: how many numbers have been put in a cell
    gtarget,    \* ticketToGrid: row of the latest placement, -1 for none
    gbranch     \* ticketToGrid: how the latest number was handled

hashVars == <<hdigits, hcount, hset, hlast, hres>>

gridVars == <<gticket, gcol, gidx, ggrid, gplaced, gtarget, gbranch>>

appVars == <<qty, validityDate, appStrips, stripValidity, stripHashes, target,
             caller, uiError>>

vars == <<pc, rnd, strip, count, strips, seen, guard, generated, warned,
          result, cand, vstrip, vres, edits, hashVars, grids, appVars,
          gridVars>>

----------------------------------------------------------------------------
(* Bounds of the model *)

\* seeds 0..MaxSeed encode the outcomes of the random source for one shuffle call
MaxSeed == 1
\* Math.random() returns one of 0/RandDen, ..., (RandDen-1)/RandDen
RandDen == 2
\* counts 0..MaxCount are requested from generateStripsUnique ...
MaxCount == 2
\* ... and one count above 10, for which count * 200 exceeds 2000
BigCount == 11
\* number of edits applied to a base strip before it is validated
MaxEdits == 1

----------------------------------------------------------------------------
(* Generic helpers *)

Min(a, b) == IF a < b THEN a ELSE b
Max(a, b) == IF a > b THEN a ELSE b

Range(s) == {s[k] : k \in 1..Len(s)}

RECURSIVE Pow(_, _)
Pow(b, e) == IF e = 0 THEN 1 ELSE b * Pow(b, e - 1)

\* Array.prototype.flat on an array of arrays
RECURSIVE flat(_)
flat(ss) == IF ss = <<>> THEN <<>> ELSE Head(ss) \o flat(Tail(ss))

\* Array.prototype.sort((a, b) => a - b): insertion into an ascending prefix
RECURSIVE InsertAsc(_, _)
InsertAsc(x, s) ==
    IF s = <<>> THEN <<x>>
    ELSE IF x <= Head(s) THEN <<x>> \o s
    ELSE <<Head(s)>> \o InsertAsc(x, Tail(s))

RECURSIVE sortAsc(_)
sortAsc(s) == IF s = <<>> THEN <<>> ELSE InsertAsc(Head(s), sortAsc(Tail(s)))

----------------------------------------------------------------------------
(* Values of the variables an operation does not use *)

NoStrip == rnd = <<>> /\ strip = <<>> /\ grids = <<>>

NoBatch ==
    /\ count = 0 /\ strips = <<>> /\ seen = {} /\ guard = 0 /\ generated = 0
    /\ warned = FALSE /\ result = <<>> /\ cand = <<>>

NoValidation == vstrip = <<>> /\ vres = <<>> /\ edits = 0

NoGrid ==
    /\ gticket = <<>>
    /\ gcol = 0
    /\ gidx = 0
    /\ ggrid = <<>>
    /\ gplaced = 0
    /\ gtarget = -1
    /\ gbranch = "none"

NoApp ==
    /\ qty = <<1, 1>>
    /\ validityDate = <<>>
    /\ appStrips = <<>>
    /\ stripValidity = <<>>
    /\ stripHashes = <<>>
    /\ target = 0
    /\ caller = "none"
    /\ uiError = "none"

NoHashes ==
    /\ hdigits = 0
    /\ hcount = 0
    /\ hset = <<>>
    /\ hlast = -1
    /\ hres = <<>>

----------------------------------------------------------------------------
(* The random source.  One shuffle call consumes the draws 0, 1, 2, ... of    *)
(* a stream; a seed encodes a stream by its base-RandDen digits, draw k being *)
(* digit k of the seed divided by RandDen (all later draws are 0).            *)

Seeds == 0..MaxSeed

RECURSIVE RandomNum(_, _)
RandomNum(seed, k) ==
    IF seed = 0 THEN 0
    ELSE IF k = 0 THEN seed % RandDen
    ELSE RandomNum(seed \div RandDen, k - 1)

\* Math.floor(Math.random() * (i + 1))
RandomIndex(seed, k, i) == (RandomNum(seed, k) * (i + 1)) \div RandDen

\* [a[i], a[j]] = [a[j], a[i]]
SwapOverwrite(a, x, y) == [a EXCEPT ![x] = a[y]]
Swap(a, x, y) == [a EXCEPT ![x] = a[y], ![y] = a[x]]

\* the loop of shuffle: i runs from a.length - 1 down to 1, an index of a;
\* k counts the draws
RECURSIVE ShuffleLoop(_, _, _, _)
ShuffleLoop(a, i, seed, k) ==
    IF 0 < i /\ i < Len(a)
    THEN ShuffleLoop(Swap(a, i + 1, RandomIndex(seed, k, i) + 1), i - 1, seed, k + 1)
    ELSE a

shuffle(arr, seed) == ShuffleLoop(arr, Len(arr) - 1, seed, 0)

----------------------------------------------------------------------------
(* Columns *)

colIndex(n) == IF n = 90 THEN 8 ELSE n \div 10

ColStart(c) == IF c = 0 THEN 1 ELSE c * 10
ColEnd(c) == IF c = 8 THEN 90 ELSE c * 10 + 9
ColArr(c) == [k \in 1..(ColEnd(c) - ColStart(c) + 1) |-> ColStart(c) + (k - 1)]

\* ranges of generateBalancedStrip: one shuffled pool per column
ranges(seeds) == [c \in 0..8 |-> shuffle(ColArr(c), seeds[c])]

----------------------------------------------------------------------------
(* generateBalancedStrip *)

\* ticketsCols[.][c] before column c is processed: one empty list per card.
\* The loop body for column c pushes to ticketsCols[t][c] only, so the
\* column slices [t |-> ticketsCols[t][c]] are built one column at a time.
EmptyColumn == [t \in 0..5 |-> <<>>]

Push(col, t, v) == [col EXCEPT ![t] = Append(@, v)]

\* card that receives the i-th extra number of column c
ExtraTicketMod3(c, i) == (c + i) % 3
ExtraTicketFromNext(c, i) == (c + i + 1) % 6
ExtraTicket(c, i) == (c + i) % 6

\* R: how many numbers of a column of N numbers are left after the base round
ExtraCount(N) == N - Min(6, N)

\* for (let t = 0; t < 6 && p < N; t++) ticketsCols[t][c].push(pool[p++])
\* returns the pair <<column slice, p>>
RECURSIVE BaseLoop(_, _, _, _)
BaseLoop(col, pool, t, p) ==
    IF t < 6 /\ p < Len(pool)
    THEN BaseLoop(Push(col, t, pool[p + 1]), pool, t + 1, p + 1)
    ELSE <<col, p>>

\* for (let i = 0; i < R && p < N; i++) ticketsCols[(c + i) % 6][c].push(pool[p++])
RECURSIVE ExtrasLoop(_, _, _, _, _, _)
ExtrasLoop(col, c, pool, R, i, p) ==
    IF i < R /\ p < Len(pool)
    THEN ExtrasLoop(Push(col, ExtraTicket(c, i), pool[p + 1]), c, pool, R, i + 1, p + 1)
    ELSE col

\* body of the loop over the columns, for column c
DistributeColumn(c, pool) ==
    LET base == BaseLoop(EmptyColumn, pool, 0, 0)
    IN  ExtrasLoop(base[1], c, pool, ExtraCount(Len(pool)), 0, base[2])

\* ticketsCols[t][c] after the loop over the columns
ticketsColsOf(rs) ==
    LET cols == [c \in 0..8 |-> DistributeColumn(c, rs[c])]
    IN  [t \in 0..5 |-> [c \in 0..8 |-> cols[c][t]]]

ticketsCols(seeds) == ticketsColsOf(ranges(seeds))

\* ticketsCols.map(cols => cols.flat().sort((a, b) => a - b))
TicketOfCols(cols) == sortAsc(flat([k \in 1..9 |-> cols[k - 1]]))

\* the strip returned when the shuffled pools are rs
StripOfRanges(rs) ==
    LET tc == ticketsColsOf(rs)
    IN  [k \in 1..6 |-> TicketOfCols(tc[k - 1])]

generateBalancedStrip(seeds) == StripOfRanges(ranges(seeds))

----------------------------------------------------------------------------
(* ticketSignature: strings are sequences of one-character strings *)

DigitChars == <<"0", "1", "2", "3", "4", "5", "6", "7", "8", "9">>

\* Number.prototype.toString of a non-negative integer
RECURSIVE numberToString(_)
numberToString(n) ==
    IF n < 10 THEN <<DigitChars[n + 1]>>
    ELSE numberToString(n \div 10) \o <<DigitChars[(n % 10) + 1]>>

\* Array.prototype.join(sep) of an array of numbers
RECURSIVE join(_, _)
join(arr, sep) ==
    IF arr = <<>> THEN <<>>
    ELSE IF Len(arr) = 1 THEN numberToString(arr[1])
    ELSE numberToString(arr[1]) \o sep \o join(Tail(arr), sep)

ticketSignature(ticket) == join(sortAsc(ticket), <<",">>)

----------------------------------------------------------------------------
(* generateStripsUnique *)

MaxAttempts(cnt) == Max(2000, cnt * 200)

\* while (strips.length < count && guard++ < maxAttempts)
LoopContinuesInclusive(n, cnt, g) == n < cnt /\ g <= MaxAttempts(cnt)
LoopContinues(n, cnt, g) == n < cnt /\ g < MaxAttempts(cnt)

\* guard++ is evaluated only when strips.length < count holds
GuardAfterTest(n, cnt, g) == IF n < cnt THEN g + 1 ELSE g

\* sigs.some(sig => seen.has(sig))
hasDupInBatchEvery(sigs, seenSet) == \A k \in 1..Len(sigs) : sigs[k] \in seenSet
hasDupInBatch(sigs, seenSet) == \E k \in 1..Len(sigs) : sigs[k] \in seenSet

\* if (strips.length < count) console.warn(...)
ShouldWarnOnExhaustion(n, cnt, g) == g >= MaxAttempts(cnt)
ShouldWarn(n, cnt, g) == n < cnt

\* Outcomes of the random source during one generateBalancedStrip call of the
\* batch loop: the first shuffle and the eight later ones each get the lowest
\* or the highest seed.
BatchSeeds == {0, MaxSeed}
CandidateVectors ==
    {[c \in 0..8 |-> IF c = 0 THEN a ELSE u] : a \in BatchSeeds, u \in BatchSeeds}

\* the strips generateBalancedStrip returns for these outcomes, and their signatures
CandidateStrips == [sv \in CandidateVectors |-> generateBalancedStrip(sv)]
CandidateSigs ==
    [sv \in CandidateVectors |->
        [k \in 1..Len(CandidateStrips[sv]) |-> ticketSignature(CandidateStrips[sv][k])]]

Counts == (0..MaxCount) \cup {BigCount}

InitBatch ==
    /\ pc = "batch_loop"
    /\ count \in Counts
    /\ strips = <<>>
    /\ seen = {}
    /\ guard = 0
    /\ generated = 0
    /\ warned = FALSE
    /\ result = <<>>
    /\ cand = <<>>
    /\ NoStrip
    /\ NoValidation
    /\ NoHashes
    /\ NoApp
    /\ NoGrid

\* sigs.forEach(sig => seen.add(sig))
SeenAfterAcceptFirstOnly(seenSet, sigs) == seenSet \cup {sigs[1]}
SeenAfterAccept(seenSet, sigs) == seenSet \cup Range(sigs)

\* one iteration of the while loop: the test succeeds, a candidate is generated,
\* then discarded or accepted
Attempt ==
    /\ pc = "batch_loop"
    /\ LoopContinues(Len(strips), count, guard)
    /\ guard' = GuardAfterTest(Len(strips), count, guard)
    /\ generated' = generated + 1
    /\ \E sv \in CandidateVectors :
          LET s == CandidateStrips[sv]
              sigs == CandidateSigs[sv]
          IN  /\ cand' = s
              /\ IF hasDupInBatch(sigs, seen)
                 THEN UNCHANGED <<strips, seen>>
                 ELSE /\ seen' = SeenAfterAccept(seen, sigs)
                      /\ strips' = Append(strips, s)
    /\ UNCHANGED <<pc, rnd, strip, count, warned, result, vstrip, vres, edits>>
    /\ UNCHANGED <<hashVars, grids, appVars>>
    /\ UNCHANGED gridVars

\* the test of the while loop fails: warn on a shortfall and return strips
ReturnBatch ==
    /\ pc = "batch_loop"
    /\ ~LoopContinues(Len(strips), count, guard)
    /\ guard' = GuardAfterTest(Len(strips), count, guard)
    /\ warned' = ShouldWarn(Len(strips), count, guard')
    /\ result' = strips
    /\ pc' = "batch_returned"
    /\ UNCHANGED <<rnd, strip, count, strips, seen, generated, cand, vstrip,
                   vres, edits>>
    /\ UNCHANGED <<hashVars, grids, appVars>>
    /\ UNCHANGED gridVars

NextBatch == Attempt \/ ReturnBatch

SpecBatch == InitBatch /\ [][NextBatch]_vars

\* the function runs synchronously to completion: a step that can be taken is taken
FairSpecBatch == SpecBatch /\ WF_vars(NextBatch)

----------------------------------------------------------------------------
(* validateStrip *)

\* seen.get(n) ?? 0 after the counting loop over all
CountIn(all, n) == Cardinality({i \in 1..Len(all) : all[i] = n})

\* for (let n = 1; n <= 90; n++)
ValidatedNumbersFromZero == [k \in 1..91 |-> k - 1]
ValidatedNumbers == [k \in 1..90 |-> k]

\* if (count === 0) missing.push(n)
IsMissingAtMostOnce(cnt) == cnt <= 1
IsMissing(cnt) == cnt = 0

\* if (count > 1) duplicates.push(n)
IsDuplicateAtLeastOnce(cnt) == cnt >= 1
IsDuplicate(cnt) == cnt > 1

\* ok = missing.length === 0 && duplicates.length === 0 && all.length === 90
okOfNoLength(missing, duplicates, all) == Len(missing) = 0 /\ Len(duplicates) = 0
okOf(missing, duplicates, all) ==
    Len(missing) = 0 /\ Len(duplicates) = 0 /\ Len(all) = 90

validateStrip(tickets) ==
    LET all == flat(tickets)
        missing == SelectSeq(ValidatedNumbers, LAMBDA n : IsMissing(CountIn(all, n)))
        duplicates == SelectSeq(ValidatedNumbers, LAMBDA n : IsDuplicate(CountIn(all, n)))
    IN  [ok |-> okOf(missing, duplicates, all),
         missing |-> missing,
         duplicates |-> duplicates]

\* chunk(arr, size): consecutive slices of size elements, the last one shorter
chunk(arr, size) ==
    [k \in 1..((Len(arr) + size - 1) \div size) |->
        SubSeq(arr, (k - 1) * size + 1, Min(k * size, Len(arr)))]

----------------------------------------------------------------------------
(* Specification of validateStrip calls.  The argument is a base strip, the  *)
(* numbers lo..hi cut into cards of 15 or a generated strip, changed by at   *)
(* most MaxEdits edits: a number replaced, removed or appended, a card added *)
(* or dropped.                                                               *)

Interval(lo, hi) == [k \in 1..(hi - lo + 1) |-> lo + (k - 1)]

BaseLows == {0, 1, 2}
BaseHighs == {76, 90, 91}
BaseStrips ==
    {chunk(Interval(lo, hi), 15) : lo \in BaseLows, hi \in BaseHighs}
        \cup {generateBalancedStrip([c \in 0..8 |-> 0])}

\* numbers an edit replaces or removes, and numbers an edit writes
EditTargets == {1, 7, 50, 90}
EditValues == {-1, 3, 50, 91}

EditPositions(cards) ==
    UNION {{<<k, i>> : i \in {j \in 1..Len(cards[k]) : cards[k][j] \in EditTargets}} :
              k \in 1..Len(cards)}

RemoveAt(s, i) == SubSeq(s, 1, i - 1) \o SubSeq(s, i + 1, Len(s))

InitValidate ==
    /\ pc = "validate_input"
    /\ vstrip \in BaseStrips
    /\ vres = <<>>
    /\ edits = 0
    /\ NoStrip
    /\ NoBatch
    /\ NoHashes
    /\ NoApp
    /\ NoGrid

Edited(new) ==
    /\ pc = "validate_input"
    /\ edits < MaxEdits
    /\ edits' = edits + 1
    /\ vstrip' = new
    /\ UNCHANGED <<pc, rnd, strip, count, strips, seen, guard, generated, warned,
                   result, cand, vres>>
    /\ UNCHANGED <<hashVars, grids, appVars>>
    /\ UNCHANGED gridVars

ReplaceNumber ==
    \E ki \in EditPositions(vstrip) : \E v \in EditValues :
        Edited([vstrip EXCEPT ![ki[1]][ki[2]] = v])

RemoveNumber ==
    \E ki \in EditPositions(vstrip) :
        Edited([vstrip EXCEPT ![ki[1]] = RemoveAt(@, ki[2])])

AppendNumber ==
    \E k \in 1..Len(vstrip) : \E v \in EditValues :
        Edited([vstrip EXCEPT ![k] = Append(@, v)])

AppendEmptyCard == Edited(Append(vstrip, <<>>))

DropLastCard ==
    /\ Len(vstrip) > 0
    /\ Edited(SubSeq(vstrip, 1, Len(vstrip) - 1))

Validate ==
    /\ pc = "validate_input"
    /\ vres' = validateStrip(vstrip)
    /\ pc' = "validate_returned"
    /\ UNCHANGED <<rnd, strip, count, strips, seen, guard, generated, warned,
                   result, cand, vstrip, edits>>
    /\ UNCHANGED <<hashVars, grids, appVars>>
    /\ UNCHANGED gridVars

NextValidate ==
    \/ ReplaceNumber
    \/ RemoveNumber
    \/ AppendNumber
    \/ AppendEmptyCard
    \/ DropLastCard
    \/ Validate

SpecValidate == InitValidate /\ [][NextValidate]_vars

----------------------------------------------------------------------------
(* ticketToGrid(ticket)                                                    *)

\* the empty cell of a grid
null == 0

\* columns: the numbers of the ticket bucketed by colIndex, each bucket sorted
columnsOf(ticket) ==
    [c \in 0..8 |-> sortAsc(SelectSeq(ticket, LAMBDA n : colIndex(n) = c))]

EmptyGrid ==
    [rows |-> [r \in 0..2 |-> [c \in 0..8 |-> null]],
     rowCounts |-> [r \in 0..2 |-> 0]]

\* the row with the smallest count, the lowest index winning ties
LeastFilledRowLastTie(rowCounts) ==
    LET t1 == IF rowCounts[1] <= rowCounts[0] THEN 1 ELSE 0
    IN  IF rowCounts[2] <= rowCounts[t1] THEN 2 ELSE t1
LeastFilledRow(rowCounts) ==
    LET t1 == IF rowCounts[1] < rowCounts[0] THEN 1 ELSE 0
    IN  IF rowCounts[2] < rowCounts[t1] THEN 2 ELSE t1

\* [0, 1, 2].find(r => rowCounts[r] < 5); -1 stands for undefined
FindRowBelowFive(rowCounts) ==
    IF \E r \in 0..2 : rowCounts[r] < 5
    THEN CHOOSE r \in 0..2 :
            /\ rowCounts[r] < 5
            /\ \A q \in 0..2 : rowCounts[q] < 5 => r <= q
    ELSE -1

\* the row that receives the next number, -1 when the number is skipped
TargetRow(rowCounts) ==
    LET targetRow == LeastFilledRow(rowCounts)
    IN  IF rowCounts[targetRow] >= 5
        THEN FindRowBelowFive(rowCounts)
        ELSE targetRow

\* body of the inner loop for the number v of column c
PlaceNumber(g, c, v) ==
    LET row == TargetRow(g.rowCounts)
    IN  IF row = -1 THEN g
        ELSE [rows |-> [g.rows EXCEPT ![row][c] = v],
              rowCounts |-> [g.rowCounts EXCEPT ![row] = @ + 1]]

\* the inner loop over colVals from position p on
RECURSIVE PlaceColumn(_, _, _, _)
PlaceColumn(g, c, colVals, p) ==
    IF p > Len(colVals) THEN g
    ELSE PlaceColumn(PlaceNumber(g, c, colVals[p]), c, colVals, p + 1)

\* the outer loop from column c on
RECURSIVE PlaceColumns(_, _, _)
PlaceColumns(g, columns, c) ==
    IF c > 8 THEN g
    ELSE PlaceColumns(PlaceColumn(g, c, columns[c], 1), columns, c + 1)

ticketToGrid(ticket) == PlaceColumns(EmptyGrid, columnsOf(ticket), 0).rows

----------------------------------------------------------------------------
(* Specification of one ticketToGrid call, one number of the ticket at a   *)
(* time                                                                    *)

\* besides the cards of the candidate strips, the tickets 1..n, n <= MaxRun
MaxRun == 18

GridTickets ==
    {CandidateStrips[sv][k] : sv \in CandidateVectors, k \in 1..6}
        \cup {Interval(1, n) : n \in 0..MaxRun}

\* which way the body of the inner loop takes for the next number: the
\* least-filled row has room, or the row found by find is used, or the
\* number is skipped by continue
Branch(rowCounts) ==
    IF rowCounts[LeastFilledRow(rowCounts)] < 5 THEN "least"
    ELSE IF FindRowBelowFive(rowCounts) # -1 THEN "alt"
    ELSE "skip"

InitGrid ==
    /\ pc = "grid_loop"
    /\ gticket \in GridTickets
    /\ gcol = 0
    /\ gidx = 1
    /\ ggrid = EmptyGrid
    /\ gplaced = 0
    /\ gtarget = -1
    /\ gbranch = "none"
    /\ NoStrip
    /\ NoBatch
    /\ NoValidation
    /\ NoHashes
    /\ NoApp

\* one iteration of for (const v of colVals)
GridPlace ==
    /\ pc = "grid_loop"
    /\ gcol <= 8
    /\ gidx <= Len(columnsOf(gticket)[gcol])
    /\ LET v == columnsOf(gticket)[gcol][gidx]
           row == TargetRow(ggrid.rowCounts)
       IN  /\ ggrid' = PlaceNumber(ggrid, gcol, v)
           /\ gtarget' = row
           /\ gbranch' = Branch(ggrid.rowCounts)
           /\ gplaced' = IF row = -1 THEN gplaced ELSE gplaced + 1
    /\ gidx' = gidx + 1
    /\ UNCHANGED <<pc, rnd, strip, count, strips, seen, guard, generated, warned,
                   result, cand, vstrip, vres, edits, hashVars, grids, appVars,
                   gticket, gcol>>

\* colVals is exhausted: c++
GridNextColumn ==
    /\ pc = "grid_loop"
    /\ gcol <= 8
    /\ gidx > Len(columnsOf(gticket)[gcol])
    /\ gcol' = gcol + 1
    /\ gidx' = 1
    /\ UNCHANGED <<pc, rnd, strip, count, strips, seen, guard, generated, warned,
                   result, cand, vstrip, vres, edits, hashVars, grids, appVars,
                   gticket, ggrid, gplaced, gtarget, gbranch>>

\* the loop over the columns has ended: return rows
GridReturn ==
    /\ pc = "grid_loop"
    /\ gcol > 8
    /\ pc' = "grid_returned"
    /\ UNCHANGED <<rnd, strip, count, strips, seen, guard, generated, warned,
                   result, cand, vstrip, vres, edits, hashVars, grids, appVars,
                   gridVars>>

NextGrid == GridPlace \/ GridNextColumn \/ GridReturn

SpecGrid == InitGrid /\ [][NextGrid]_vars

----------------------------------------------------------------------------
(* Specification of one generateBalancedStrip call: the nine shuffles get  *)
(* independent outcomes of the random source.                              *)

SeedVectors == [0..8 -> Seeds]


InitStrip ==
    /\ pc = "strip_call"
    /\ rnd \in SeedVectors
    /\ strip = <<>>
    /\ grids = <<>>
    /\ NoBatch
    /\ NoValidation
    /\ NoHashes
    /\ NoApp
    /\ NoGrid

GenerateStrip ==
    /\ pc = "strip_call"
    /\ strip' = generateBalancedStrip(rnd)
    /\ pc' = "strip_returned"
    /\ UNCHANGED <<rnd, count, strips, seen, guard, generated, warned, result, cand,
                   vstrip, vres, edits, hashVars, grids, appVars>>
    /\ UNCHANGED gridVars

\* the cards of the strip are laid out for display
RenderGrids ==
    /\ pc = "strip_returned"
    /\ grids' = [k \in 1..Len(strip) |-> ticketToGrid(strip[k])]
    /\ pc' = "strip_rendered"
    /\ UNCHANGED <<rnd, strip, count, strips, seen, guard, generated, warned,
                   result, cand, vstrip, vres, edits, hashVars, appVars>>
    /\ UNCHANGED gridVars

NextStrip == GenerateStrip \/ RenderGrids

SpecStrip == InitStrip /\ [][NextStrip]_vars

----------------------------------------------------------------------------
(* generateUniqueHashes(count, digits)                                     *)

\* digits ranges over 1..MaxDigits (the callers pass 4)
MaxDigits == 2
\* counts 0..MaxHashCount are requested besides 10^digits and 10^digits + 1
MaxHashCount == 3
\* the random source repeats only values among the first DupSpan it delivered
DupSpan == 2

\* String.prototype.padStart(targetLength, padChar) with a one-character pad
padStartNever(str, targetLength, padChar) == str
padStart(str, targetLength, padChar) ==
    IF Len(str) >= targetLength THEN str
    ELSE [k \in 1..(targetLength - Len(str)) |-> padChar] \o str

\* Set.prototype.add on a Set kept in insertion order
SetAdd(set, v) == IF v \in Range(set) THEN set ELSE Append(set, v)

\* the test count > max that guards the loop
ThrowsInfeasibleAtMax(cnt, max) == cnt >= max
ThrowsInfeasible(cnt, max) == cnt > max

\* the test set.size < count of the while loop
HashLoopContinuesInclusive(size, cnt) == size <= cnt
HashLoopContinues(size, cnt) == size < cnt

\* the string added to the set for the sample n
HashOf(n, digits) == padStart(numberToString(n), digits, "0")

\* Values of Math.floor(Math.random() * max) delivered in the model: values
\* not drawn before arrive in ascending order, and a repeated value is one of
\* the first DupSpan values.
HashSamples(set, max) ==
    {n \in (0..(Min(DupSpan, Len(set)) - 1)) \cup {Len(set)} : n < max}

HashCounts(digits) ==
    (0..MaxHashCount) \cup {Pow(10, digits), Pow(10, digits) + 1}

InitHashes ==
    /\ pc = "hash_call"
    /\ hdigits \in 1..MaxDigits
    /\ hcount \in HashCounts(hdigits)
    /\ hset = <<>>
    /\ hlast = -1
    /\ hres = <<>>
    /\ NoStrip
    /\ NoBatch
    /\ NoValidation
    /\ NoApp
    /\ NoGrid

\* entry of the function: the throw, or the creation of the empty set
HashEnter ==
    /\ pc = "hash_call"
    /\ pc' = IF ThrowsInfeasible(hcount, Pow(10, hdigits))
             THEN "hash_thrown" ELSE "hash_loop"
    /\ UNCHANGED <<rnd, strip, count, strips, seen, guard, generated, warned,
                   result, cand, vstrip, vres, edits, hashVars, grids, appVars>>
    /\ UNCHANGED gridVars

\* one iteration of the while loop with the sample n
HashSample(n) ==
    /\ pc = "hash_loop"
    /\ HashLoopContinues(Len(hset), hcount)
    /\ hlast' = n
    /\ hset' = SetAdd(hset, HashOf(n, hdigits))
    /\ UNCHANGED <<pc, rnd, strip, count, strips, seen, guard, generated,
                   warned, result, cand, vstrip, vres, edits, hdigits, hcount, hres,
                   grids, appVars>>
    /\ UNCHANGED gridVars

HashSampleFresh ==
    \E n \in HashSamples(hset, Pow(10, hdigits)) :
        /\ HashOf(n, hdigits) \notin Range(hset)
        /\ HashSample(n)

HashSampleRepeat ==
    \E n \in HashSamples(hset, Pow(10, hdigits)) :
        /\ HashOf(n, hdigits) \in Range(hset)
        /\ HashSample(n)

\* the test of the while loop fails: Array.from(set) is returned
HashReturn ==
    /\ pc = "hash_loop"
    /\ ~HashLoopContinues(Len(hset), hcount)
    /\ hres' = hset
    /\ pc' = "hash_returned"
    /\ UNCHANGED <<rnd, strip, count, strips, seen, guard, generated, warned,
                   result, cand, vstrip, vres, edits, hdigits, hcount, hset, hlast,
                   grids, appVars>>
    /\ UNCHANGED gridVars

NextHashes ==
    \/ HashEnter
    \/ HashSampleFresh
    \/ HashSampleRepeat
    \/ HashReturn

SpecHashes == InitHashes /\ [][NextHashes]_vars

\* the loop keeps running while its test holds
FairSpecHashes == SpecHashes /\ WF_vars(NextHashes)

----------------------------------------------------------------------------
(* App: state, effect and handlers                                         *)

\* generateStripsUnique returns up to SmallBatch strips, or the overflow batch
SmallBatch == 2

\* A number is <<numerator, denominator>>; NaN is 0/0.
NaN == <<0, 0>>
IsNaN(q) == q[2] = 0

\* Math.floor
Floor(q) == q[1] \div q[2]

\* qty || 1: 0 and NaN are falsy
OrOne(q) == IF IsNaN(q) \/ q[1] = 0 THEN <<1, 1>> ELSE q

\* Math.max(1, Math.min(9999, Math.floor(qty || 1)))
ClampTargetNoCeiling(q) == Max(1, Floor(OrOne(q)))
ClampTarget(q) == Max(1, Min(9999, Floor(OrOne(q))))

\* the smallest number of strips whose cards outnumber the 4-digit codes
OverflowStrips == (Pow(10, 4) \div 6) + 1

\* values of Number(e.target.value) of the quantity input
QtyValues ==
    {<<0, 1>>, <<-3, 1>>, <<1, 2>>, <<1, 1>>, <<2, 1>>, <<5, 2>>,
     <<OverflowStrips, 1>>, <<12000, 1>>, NaN}

\* the value of a date input: "" or "YYYY-MM-DD"
DateString(y, m, d) ==
    padStart(numberToString(y), 4, "0") \o <<"-">>
        \o padStart(numberToString(m), 2, "0") \o <<"-">>
        \o padStart(numberToString(d), 2, "0")

Dates == {<<>>, DateString(2025, 1, 31), DateString(2026, 12, 24)}

\* String.prototype.split(sep) with a one-character separator
RECURSIVE split(_, _)
split(str, sep) ==
    IF \E k \in 1..Len(str) : str[k] = sep
    THEN LET k == CHOOSE i \in 1..Len(str) :
                    /\ str[i] = sep
                    /\ \A q \in 1..(i - 1) : str[q] # sep
         IN  <<SubSeq(str, 1, k - 1)>> \o split(SubSeq(str, k + 1, Len(str)), sep)
    ELSE <<str>>

\* formatDate: "YYYY-MM-DD" to "DD/MM/YYYY"
formatDate(brDateIso) ==
    IF brDateIso = <<>> THEN <<>>
    ELSE LET parts == split(brDateIso, "-")
         IN  IF \E k \in 1..3 : Len(parts) < k \/ parts[k] = <<>>
             THEN brDateIso
             ELSE parts[3] \o <<"/">> \o parts[2] \o <<"/">> \o parts[1]

\* A family of strips generateBalancedStrip can return, no two of them with a
\* card in common: in strip i the pools of the columns 1..5 are the column
\* ranges rotated by the base-5 digits of i, the other pools are not permuted.
RotatedPool(c, r) ==
    LET N == ColEnd(c) - ColStart(c) + 1
    IN  [k \in 1..N |-> ColStart(c) + ((k - 1 + r) % N)]

FamilyRanges(i) ==
    [c \in 0..8 |->
        RotatedPool(c, IF c \in 1..5 THEN (i \div Pow(5, c - 1)) % 5 ELSE 0)]

BatchFamily ==
    [i \in 1..OverflowStrips |-> StripOfRanges(FamilyRanges(i - 1))]

\* m strips of the family after the first from
Window(from, m) == [j \in 1..m |-> BatchFamily[from + j]]

\* the lists generateStripsUnique(t) returns in the model: 1 strip, up to
\* SmallBatch strips, and OverflowStrips strips when t allows them
BatchResults(t) ==
    {Window(from, m) : from \in {0, 1}, m \in {1, Min(t, SmallBatch)}}
        \cup (IF t >= OverflowStrips THEN {Window(0, OverflowStrips)} ELSE {})

\* list.reduce((acc, s) => acc + s.length, 0), the sum taken by halves
RECURSIVE SumLengths(_, _, _)
SumLengths(list, lo, hi) ==
    IF lo > hi THEN 0
    ELSE IF lo = hi THEN Len(list[lo])
    ELSE LET mid == (lo + hi) \div 2
         IN  SumLengths(list, lo, mid) + SumLengths(list, mid + 1, hi)

TotalLength(list) == SumLengths(list, 1, Len(list))

\* Array.prototype.slice(a, b)
slice(arr, a, b) == SubSeq(arr, a + 1, Min(b, Len(arr)))

\* the loop that cuts batchHashes into one slice per strip, from strip j on
RECURSIVE distributeFrom(_, _, _, _)
distributeFrom(batchHashes, list, j, cursor) ==
    IF j > Len(list) THEN <<>>
    ELSE <<slice(batchHashes, cursor, cursor + Len(list[j]))>>
            \o distributeFrom(batchHashes, list, j + 1, cursor + Len(list[j]))

distributed(batchHashes, list) == distributeFrom(batchHashes, list, 1, 0)

\* Array(n).fill(v)
Fill(n, v) == [j \in 1..n |-> v]

\* the call generateUniqueHashes(cnt, 4) made by who
CallHashes(cnt, who) ==
    /\ hcount' = cnt
    /\ hdigits' = 4
    /\ hset' = <<>>
    /\ hlast' = -1
    /\ hres' = <<>>
    /\ caller' = who
    /\ pc' = "hash_call"

\* the first render: useState initial values, the effect is pending
InitApp ==
    /\ pc = "ui_mounted"
    /\ qty = <<1, 1>>
    /\ appStrips \in {Window(from, 1) : from \in {0, 1}}
    /\ validityDate = <<>>
    /\ stripValidity = <<>>
    /\ stripHashes = <<>>
    /\ target = 0
    /\ caller = "none"
    /\ uiError = "none"
    /\ NoStrip
    /\ NoBatch
    /\ NoValidation
    /\ NoHashes
    /\ NoGrid

\* onChange of the quantity input
SetQty ==
    /\ pc = "ui_idle"
    /\ \E v \in QtyValues : qty' = v
    /\ UNCHANGED <<pc, rnd, strip, count, strips, seen, guard, generated, warned,
                   result, cand, vstrip, vres, edits, hashVars, grids,
                   validityDate, appStrips, stripValidity, stripHashes, target,
                   caller, uiError>>
    /\ UNCHANGED gridVars

\* onChange of the validity input
SetValidityDate ==
    /\ pc = "ui_idle"
    /\ \E v \in Dates : validityDate' = v
    /\ UNCHANGED <<pc, rnd, strip, count, strips, seen, guard, generated, warned,
                   result, cand, vstrip, vres, edits, hashVars, grids,
                   qty, appStrips, stripValidity, stripHashes, target,
                   caller, uiError>>
    /\ UNCHANGED gridVars

\* handleGenerate up to its call of generateUniqueHashes; the state updates
\* it has queued (setStrips, setStripValidity) are shown as made
HandleGenerateCall ==
    /\ pc = "ui_idle"
    /\ target' = ClampTarget(qty)
    /\ \E newStrips \in BatchResults(ClampTarget(qty)) :
       \E acceptedStrips \in
             IF Len(newStrips) # 0 THEN {newStrips}
             ELSE {<<CandidateStrips[sv]>> : sv \in CandidateVectors} :
          LET frozen == Len(acceptedStrips)
          IN  /\ appStrips' = acceptedStrips
              /\ stripValidity' = Fill(frozen, validityDate)
              /\ CallHashes(TotalLength(acceptedStrips), "handleGenerate")
    /\ uiError' = "none"
    /\ UNCHANGED <<rnd, strip, count, strips, seen, guard, generated, warned,
                   result, cand, vstrip, vres, edits, grids, qty, validityDate,
                   stripHashes>>
    /\ UNCHANGED gridVars

\* handleGenerate after generateUniqueHashes returned: setStripHashes, and
\* the render that follows leaves the effect pending
HandleGenerateReturn ==
    /\ pc = "hash_returned"
    /\ caller = "handleGenerate"
    /\ stripHashes' = distributed(hres, appStrips)
    /\ caller' = "none"
    /\ pc' = "ui_after_generate"
    /\ UNCHANGED <<rnd, strip, count, strips, seen, guard, generated, warned,
                   result, cand, vstrip, vres, edits, hashVars, grids, qty,
                   validityDate, appStrips, stripValidity, target, uiError>>
    /\ UNCHANGED gridVars

\* generateUniqueHashes threw: handleGenerate is left by the error, the
\* updates queued before the call are applied by the render that follows
HandleGenerateThrow ==
    /\ pc = "hash_thrown"
    /\ caller = "handleGenerate"
    /\ uiError' = "handleGenerate"
    /\ caller' = "none"
    /\ pc' = "ui_after_generate"
    /\ UNCHANGED <<rnd, strip, count, strips, seen, guard, generated, warned,
                   result, cand, vstrip, vres, edits, hashVars, grids, qty,
                   validityDate, appStrips, stripValidity, stripHashes, target>>
    /\ UNCHANGED gridVars

\* the test of the effect that guards the generation of codes
NeedsHashesNever(currentCount, totalTickets) == FALSE
NeedsHashesAlways(currentCount, totalTickets) == totalTickets > 0
NeedsHashes(currentCount, totalTickets) ==
    currentCount # totalTickets /\ totalTickets > 0

\* the effect of [strips], after the first render and after every setStrips,
\* up to its call of generateUniqueHashes or to its end
EffectRun ==
    /\ pc \in {"ui_mounted", "ui_after_generate"}
    /\ IF Len(appStrips) = 0
       THEN /\ pc' = "ui_idle"
            /\ UNCHANGED <<stripValidity, caller, hashVars>>
       ELSE /\ stripValidity' =
                  IF Len(stripValidity) # Len(appStrips)
                  THEN Fill(Len(appStrips), validityDate)
                  ELSE stripValidity
            /\ LET totalTickets == TotalLength(appStrips)
                   currentCount == TotalLength(stripHashes)
               IN  IF NeedsHashes(currentCount, totalTickets)
                   THEN CallHashes(totalTickets, "useEffect")
                   ELSE /\ pc' = "ui_idle"
                        /\ UNCHANGED <<caller, hashVars>>
    /\ UNCHANGED <<rnd, strip, count, strips, seen, guard, generated, warned,
                   result, cand, vstrip, vres, edits, grids, qty, validityDate,
                   appStrips, stripHashes, target, uiError>>
    /\ UNCHANGED gridVars

\* the effect after generateUniqueHashes returned: setStripHashes
EffectReturn ==
    /\ pc = "hash_returned"
    /\ caller = "useEffect"
    /\ stripHashes' = distributed(hres, appStrips)
    /\ caller' = "none"
    /\ pc' = "ui_idle"
    /\ UNCHANGED <<rnd, strip, count, strips, seen, guard, generated, warned,
                   result, cand, vstrip, vres, edits, hashVars, grids, qty,
                   validityDate, appStrips, stripValidity, target, uiError>>
    /\ UNCHANGED gridVars

\* generateUniqueHashes threw inside the effect: the error is caught by
\* nothing and the component tree is unmounted
EffectThrow ==
    /\ pc = "hash_thrown"
    /\ caller = "useEffect"
    /\ uiError' = "useEffect"
    /\ caller' = "none"
    /\ pc' = "ui_crashed"
    /\ UNCHANGED <<rnd, strip, count, strips, seen, guard, generated, warned,
                   result, cand, vstrip, vres, edits, hashVars, grids, qty,
                   validityDate, appStrips, stripValidity, stripHashes, target>>
    /\ UNCHANGED gridVars

NextApp ==
    \/ SetQty
    \/ SetValidityDate
    \/ HandleGenerateCall
    \/ HandleGenerateReturn
    \/ HandleGenerateThrow
    \/ EffectRun
    \/ EffectReturn
    \/ EffectThrow
    \/ HashEnter
    \/ HashSampleFresh
    \/ HashSampleRepeat
    \/ HashReturn

SpecApp == InitApp /\ [][NextApp]_vars

----------------------------------------------------------------------------
(* Properties of generateBalancedStrip *)

\* positions <<k, i>> of a list of cards that hold the number n
Occurrences(cards, n) ==
    UNION {{<<k, i>> : i \in {j \in 1..Len(cards[k]) : cards[k][j] = n}} :
              k \in 1..Len(cards)}

SumLen(cards) == Len(flat(cards))

\* how many numbers of column c a card holds
InColumn(card, c) == Cardinality({i \in 1..Len(card) : colIndex(card[i]) = c})

StripReturned == pc = "strip_returned"

\* C1: the cards of the returned strip hold every number of 1..90 exactly once
\* and nothing else.
C1_StripCoversOneToNinety ==
    StripReturned =>
        /\ \A n \in 1..90 : Cardinality(Occurrences(strip, n)) = 1
        /\ SumLen(strip) = 90

C1_Witness ==
    /\ StripReturned
    /\ \E c \in 0..8 : rnd[c] # 0
    /\ \E c \in 0..8 : rnd[c] = 0
    /\ \A n \in 1..90 : Cardinality(Occurrences(strip, n)) = 1

\* C2: the returned strip has six cards and each card has exactly 15 numbers.
\* (The extras of the nine columns go to the cards 0..5 in the numbers
\* 6, 6, 7, 6, 6, 5: card 2 gets 16 numbers and card 5 gets 14.)
C2_SixCardsOfFifteen ==
    StripReturned =>
        /\ Len(strip) = 6
        /\ \A k \in 1..6 : Len(strip[k]) = 15

\* C3: every card of the returned strip holds 1 or 2 numbers of every column.
C3_OneOrTwoPerColumn ==
    StripReturned =>
        \A k \in 1..Len(strip) : \A c \in 0..8 : InColumn(strip[k], c) \in {1, 2}

C3_Witness ==
    /\ StripReturned
    /\ \E k \in 1..6 : InColumn(strip[k], 8) = 2
    /\ \E k \in 1..6 : InColumn(strip[k], 8) = 1
    /\ \E k \in 1..6 : InColumn(strip[k], 0) = 2 /\ InColumn(strip[k], 1) = 1

\* the cards that receive an extra number of a column c of N numbers
ExtraCards(c, N) == {(c + i) % 6 : i \in 0..(N - 7)}

\* C18: for each column c, whose shuffled pool has N numbers, card t receives
\* the t-th number of the pool and the i-th of the N - 6 extras goes to card
\* (c + i) mod 6; so the cards holding 2 numbers of column c are exactly the
\* N - 6 distinct cards (c + i) mod 6, 0 <= i < N - 6, and every other card
\* holds exactly 1.
C18_ExtrasCyclicFromColumnIndex ==
    StripReturned =>
        \A c \in 0..8 :
            LET pool == ranges(rnd)[c]
                N == Len(pool)
            IN  /\ Cardinality(ExtraCards(c, N)) = N - 6
                /\ \A t \in 0..5 :
                      /\ pool[t + 1] \in Range(strip[t + 1])
                      /\ InColumn(strip[t + 1], c)
                            = IF t \in ExtraCards(c, N) THEN 2 ELSE 1
                /\ \A i \in 0..(N - 7) :
                      pool[6 + i + 1] \in Range(strip[((c + i) % 6) + 1])

\* a strip whose column 8 wrapped around: its 5 extras went to the cards
\* 2, 3, 4, 5 and 0, and column 0 gave its 3 extras to the cards 0, 1 and 2
C18_Witness ==
    /\ StripReturned
    /\ rnd[8] # 0
    /\ \A t \in 0..5 : InColumn(strip[t + 1], 8) = IF t = 1 THEN 1 ELSE 2
    /\ \A t \in 0..5 : InColumn(strip[t + 1], 0) = IF t < 3 THEN 2 ELSE 1

----------------------------------------------------------------------------
(* Properties of generateStripsUnique *)

BatchReturned == pc = "batch_returned"

\* the cards of a list of strips, as pairs <<strip position, card position>>
CardsOf(list) == {<<j, k>> : j \in 1..Len(list), k \in 1..6}

Reverse(s) == [i \in 1..Len(s) |-> s[Len(s) + 1 - i]]

\* C4: no two cards of the returned list hold the same set of numbers, and
\* on these cards ticketSignature identifies exactly the set of numbers,
\* whatever the order of the card.
C4_BatchCardsUnique ==
    BatchReturned =>
        LET cards == CardsOf(result)
        IN  /\ \A x \in cards : \A y \in cards :
                    x # y => Range(result[x[1]][x[2]]) # Range(result[y[1]][y[2]])
            /\ Cardinality({ticketSignature(result[x[1]][x[2]]) : x \in cards})
                   = Cardinality({Range(result[x[1]][x[2]]) : x \in cards})
            /\ \A x \in cards :
                    ticketSignature(Reverse(result[x[1]][x[2]]))
                       = ticketSignature(result[x[1]][x[2]])

C4_Witness ==
    /\ BatchReturned
    /\ Len(result) = 2
    /\ generated > 2

\* C5: the call ends; at most max(2000, count * 200) candidates are generated,
\* none once count strips are accepted, and at most count strips are returned.
C5_BoundedAttempts ==
    /\ [](/\ generated <= Max(2000, count * 200)
          /\ Len(strips) <= count
          /\ (BatchReturned => Len(result) <= count))
    /\ [][Len(strips) >= count => generated' = generated]_vars
    /\ <>BatchReturned

C5_Witness ==
    /\ BatchReturned
    /\ count = BigCount
    /\ generated = count * 200
    /\ generated > 2000

\* C6: the call returns the accepted strips, and the warning is emitted exactly
\* when fewer than count strips are returned; in particular when the budget is
\* exhausted before count strips are accepted.
C6_PartialResultAndWarning ==
    BatchReturned =>
        /\ result = strips
        /\ warned <=> Len(result) < count
        /\ (generated = Max(2000, count * 200) /\ Len(strips) < count) => warned

C6_Witness ==
    /\ BatchReturned
    /\ warned
    /\ count = 2
    /\ Len(result) = 1
    /\ generated = 2000

C6_WitnessFullAtLastAttempt ==
    /\ BatchReturned
    /\ ~warned
    /\ count = 2
    /\ Len(result) = 2
    /\ generated = 2000

\* the signatures of the cards of a strip, and of a list of strips
SignaturesOfStrip(s) == {ticketSignature(s[k]) : k \in 1..Len(s)}
SignaturesOf(list) == UNION {SignaturesOfStrip(list[j]) : j \in 1..Len(list)}

\* the signatures of a candidate strip, read from the table of the candidates
TabulatedSignatures(s) ==
    Range(CandidateSigs[CHOOSE sv \in CandidateVectors : CandidateStrips[sv] = s])

\* C20 (state part): at every point of generateStripsUnique, seen is exactly
\* the set of signatures of the cards of the accepted strips.
C20_SeenIsSignaturesOfAccepted ==
    pc \in {"batch_loop", "batch_returned"} => seen = SignaturesOf(strips)

\* C20: in every iteration of generateStripsUnique, a candidate with at least
\* one card signature already in seen is discarded as a whole, leaving strips
\* and seen unchanged; otherwise it is appended to strips and all its
\* signatures are added to seen.  So seen is always the set of signatures of
\* the cards of the accepted strips, and the accepted strips are never removed
\* or reordered.
C20_DiscardWholeOrAcceptWhole ==
    /\ []C20_SeenIsSignaturesOfAccepted
    /\ [][(pc = "batch_loop" /\ pc' = "batch_loop") =>
            LET sigs == TabulatedSignatures(cand')
            IN  IF sigs \cap seen # {}
                THEN strips' = strips /\ seen' = seen
                ELSE /\ strips' = Append(strips, cand')
                     /\ seen' = seen \cup sigs]_vars
    /\ [][Len(strips') >= Len(strips)
          /\ SubSeq(strips', 1, Len(strips)) = strips]_vars

\* a candidate sharing a card with an accepted strip, without being that
\* strip, has just been discarded after two strips were accepted
C20_Witness ==
    /\ pc = "batch_loop"
    /\ Len(strips) = 2
    /\ cand \notin Range(strips)
    /\ \E k \in 1..6 : ticketSignature(cand[k]) \in seen
    /\ \E k \in 1..6 : ticketSignature(cand[k]) \notin seen

----------------------------------------------------------------------------
(* Properties of validateStrip *)

ValidateReturned == pc = "validate_returned"

\* all numbers of a list of cards
NumbersOf(cards) == UNION {Range(cards[k]) : k \in 1..Len(cards)}

\* how often n occurs in a list of cards
Times(cards, n) == Cardinality(Occurrences(cards, n))

StrictlyAscending(s) == \A i \in 1..(Len(s) - 1) : s[i] < s[i + 1]

\* C7: ok holds exactly when the numbers of the strip are 1..90, each once,
\* and nothing else; equivalently when missing and duplicates are empty and
\* the strip has 90 numbers.
C7_OkIffExactPartition ==
    ValidateReturned =>
        /\ vres.ok <=> (/\ \A n \in 1..90 : Times(vstrip, n) = 1
                        /\ NumbersOf(vstrip) \subseteq 1..90)
        /\ vres.ok <=> (/\ vres.missing = <<>>
                        /\ vres.duplicates = <<>>
                        /\ SumLen(vstrip) = 90)

C7_WitnessOk == ValidateReturned /\ vres.ok /\ edits = 0

C7_WitnessExtraNumber ==
    /\ ValidateReturned
    /\ ~vres.ok
    /\ vres.missing = <<>>
    /\ vres.duplicates = <<>>
    /\ \E n \in NumbersOf(vstrip) : n \notin 1..90

\* C8: missing is the strictly ascending list of the numbers of 1..90 that
\* do not occur in the strip.
C8_MissingExact ==
    ValidateReturned =>
        /\ StrictlyAscending(vres.missing)
        /\ Range(vres.missing) = {n \in 1..90 : Times(vstrip, n) = 0}

C8_Witness ==
    /\ ValidateReturned
    /\ Times(vstrip, 7) = 0
    /\ 7 \in Range(vres.missing)
    /\ Times(vstrip, 3) = 2

\* C9 as claimed: duplicates lists every number that occurs two or more times
\* in the strip, whatever the number.
C9_DuplicatesOfAnyNumber ==
    ValidateReturned =>
        /\ StrictlyAscending(vres.duplicates)
        /\ Range(vres.duplicates) = {n \in NumbersOf(vstrip) : Times(vstrip, n) >= 2}

\* C9 as amended: duplicates is the strictly ascending list of the numbers of
\* 1..90 that occur two or more times in the strip.
C9_DuplicatesWithinOneToNinety ==
    ValidateReturned =>
        /\ StrictlyAscending(vres.duplicates)
        /\ Range(vres.duplicates) = {n \in 1..90 : Times(vstrip, n) >= 2}

C9_Witness ==
    /\ ValidateReturned
    /\ vres.duplicates = <<50>>
    /\ Times(vstrip, 50) = 2

C9_WitnessOutOfRange ==
    /\ ValidateReturned
    /\ Times(vstrip, 91) = 2
    /\ vres.duplicates = <<>>

\* the strips of the scenario: 5 cards of 15 numbers of 1..90, without 1 and
\* 90, with 50 twice
ScenarioStrip ==
    /\ Len(vstrip) = 5
    /\ \A k \in 1..5 : Len(vstrip[k]) = 15
    /\ NumbersOf(vstrip) \subseteq 1..90
    /\ Times(vstrip, 1) = 0
    /\ Times(vstrip, 90) = 0
    /\ Times(vstrip, 50) = 2

\* C10 as claimed: on such a strip the result is ok = false, missing = [1, 90],
\* duplicates = [50].
C10_ScenarioExactLists ==
    (ValidateReturned /\ ScenarioStrip) =>
        /\ vres.ok = FALSE
        /\ vres.missing = <<1, 90>>
        /\ vres.duplicates = <<50>>

\* C10 as amended: on such a strip ok = false, missing starts with 1, ends with
\* 90 and has at least 16 numbers (75 slots with a repeat hold at most 74 of
\* the 90 numbers), and duplicates contains 50, being [50] when no other number
\* is repeated.
C10_ScenarioMissingAtLeastSixteen ==
    (ValidateReturned /\ ScenarioStrip) =>
        /\ vres.ok = FALSE
        /\ Len(vres.missing) >= 16
        /\ vres.missing[1] = 1
        /\ vres.missing[Len(vres.missing)] = 90
        /\ 50 \in Range(vres.duplicates)
        /\ (\A n \in NumbersOf(vstrip) : n # 50 => Times(vstrip, n) = 1)
              => vres.duplicates = <<50>>

C10_Witness ==
    /\ ValidateReturned
    /\ ScenarioStrip
    /\ vres.duplicates = <<50>>
    /\ Len(vres.missing) = 16

----------------------------------------------------------------------------
(* Properties of generateUniqueHashes *)

HashReturned == pc = "hash_returned"
HashThrown == pc = "hash_thrown"

\* the decimal value of a string of digit characters
RECURSIVE DecimalValue(_)
DecimalValue(str) ==
    IF str = <<>> THEN 0
    ELSE 10 * DecimalValue(SubSeq(str, 1, Len(str) - 1))
         + (CHOOSE d \in 0..9 : DigitChars[d + 1] = str[Len(str)])

\* C11: whenever generateUniqueHashes(count, digits) returns for a count in
\* 0..10^digits, the returned array holds exactly count strings, pairwise
\* distinct, each of exactly digits characters, all of them 0-9, i.e. the
\* zero-padded decimal form of a value in [0, 10^digits).
C11_CountDistinctPaddedCodes ==
    (HashReturned /\ hcount <= Pow(10, hdigits)) =>
        /\ Len(hres) = hcount
        /\ Cardinality(Range(hres)) = Len(hres)
        /\ \A k \in 1..Len(hres) :
              /\ Len(hres[k]) = hdigits
              /\ \A q \in 1..Len(hres[k]) : hres[k][q] \in Range(DigitChars)
              /\ DecimalValue(hres[k]) \in 0..(Pow(10, hdigits) - 1)

\* a call for the whole code space of MaxDigits digits returned; its first
\* code is the padded 0 and its last one has no pad
C11_Witness ==
    /\ HashReturned
    /\ hdigits = MaxDigits
    /\ hcount = Pow(10, hdigits)
    /\ hres[1] = [k \in 1..hdigits |-> "0"]
    /\ hres[Len(hres)] = [k \in 1..hdigits |-> "9"]

\* C12: generateUniqueHashes fails with the infeasible-request error exactly
\* when count > 10^digits, and it fails before any sample is drawn: no set
\* element, no sample and no returned list exist when it has thrown, and a
\* call that entered the loop or returned had count <= 10^digits.
C12_ThrowsIffInfeasibleBeforeSampling ==
    /\ HashThrown =>
          /\ hcount > Pow(10, hdigits)
          /\ hset = <<>>
          /\ hlast = -1
          /\ hres = <<>>
    /\ pc \in {"hash_loop", "hash_returned"} => hcount <= Pow(10, hdigits)

\* the smallest infeasible request of MaxDigits digits has thrown
C12_Witness ==
    /\ HashThrown
    /\ hdigits = MaxDigits
    /\ hcount = Pow(10, hdigits) + 1

\* a request for exactly 10^digits codes is in the loop, its set not yet full
C12_WitnessFeasibleAtMax ==
    /\ pc = "hash_loop"
    /\ hcount = Pow(10, hdigits)
    /\ Len(hset) = MaxHashCount

HashDone == HashReturned \/ HashThrown

\* C16 (as stated): the retry loop is bounded by an attempt cap, so every
\* call of generateUniqueHashes ends, whatever values the random source
\* returns.
C16_LoopEndsWhateverTheSamples == <>HashDone

\* C16 (amended): the loop has no attempt cap; a call ends on every execution
\* in which the random source does not keep returning already drawn values
\* for ever, i.e. a sample not drawn before is eventually taken whenever it
\* stays possible again and again.
C16_LoopEndsWhenFreshSamplesArrive == SF_vars(HashSampleFresh) => <>HashDone

\* the loop took a repeated sample: the set holds fewer codes than requested
\* and the latest sample is not the latest code added
C16_Witness ==
    /\ pc = "hash_loop"
    /\ hcount <= Pow(10, hdigits)
    /\ Len(hset) = DupSpan
    /\ Len(hset) < hcount
    /\ hlast = 0

----------------------------------------------------------------------------
(* Properties of ticketToGrid *)

StripRendered == pc = "strip_rendered"

\* the numbers held by row r of a grid, and by column c
RowNumbers(grid, r) == {c \in 0..8 : grid[r][c] # null}
CellsHolding(grid, n) == {rc \in (0..2) \X (0..8) : grid[rc[1]][rc[2]] = n}

\* C14: for every card of every strip produced by generateBalancedStrip,
\* ticketToGrid returns 3 rows of 9 cells in which every row holds exactly 5
\* numbers and 4 empty cells.
C14_FiveNumbersPerRow ==
    StripRendered =>
        \A k \in 1..Len(grids) :
            /\ DOMAIN grids[k] = 0..2
            /\ \A r \in 0..2 :
                  /\ DOMAIN grids[k][r] = 0..8
                  /\ Cardinality(RowNumbers(grids[k], r)) = 5

\* C15: for every card of every generated strip, ticketToGrid puts each number
\* of the card in exactly one cell, in column colIndex(n), and every filled
\* cell holds a number of the card; so the six grids of a strip show each of
\* 1..90 exactly once.
C15_EveryNumberInItsColumnOnce ==
    StripRendered =>
        /\ \A k \in 1..Len(grids) :
              /\ \A n \in Range(strip[k]) :
                    /\ Cardinality(CellsHolding(grids[k], n)) = 1
                    /\ \A rc \in CellsHolding(grids[k], n) : rc[2] = colIndex(n)
              /\ \A rc \in (0..2) \X (0..8) :
                    grids[k][rc[1]][rc[2]] # null =>
                        grids[k][rc[1]][rc[2]] \in Range(strip[k])
        /\ \A n \in 1..90 :
              Cardinality({k \in 1..Len(grids) :
                              CellsHolding(grids[k], n) # {}}) = 1

----------------------------------------------------------------------------
(* Properties of the App *)

\* handleGenerate has ended, by a return or by an error
AfterGenerate == pc = "ui_after_generate"

IsCode(str) ==
    /\ Len(str) = 4
    /\ \A q \in 1..Len(str) : str[q] \in Range(DigitChars)

\* C13: for every requested quantity, handleGenerate completes and leaves in
\* stripHashes exactly one 4-digit code for each card of the displayed batch
\* (stripHashes[i][j] for card j of strip i), all codes of the batch pairwise
\* distinct.
C13_GenerateLeavesOneCodePerCard ==
    AfterGenerate =>
        /\ uiError = "none"
        /\ Len(stripHashes) = Len(appStrips)
        /\ \A i \in 1..Len(appStrips) :
              /\ Len(stripHashes[i]) = Len(appStrips[i])
              /\ \A j \in 1..Len(stripHashes[i]) : IsCode(stripHashes[i][j])
        /\ Cardinality(UNION {Range(stripHashes[i]) : i \in 1..Len(stripHashes)})
              = TotalLength(stripHashes)

\* C17: whatever the value of the quantity input (0, negative, fractional,
\* above 9999, NaN), the target handleGenerate passes to generateStripsUnique
\* is an integer of 1..9999: 1 for NaN and for values below 1, 9999 for values
\* from 9999 on, the integer part otherwise; and the batch displayed afterwards
\* has at least 1 and at most target strips.
C17_TargetClampedBatchWithinTarget ==
    AfterGenerate =>
        /\ target \in 1..9999
        /\ (IsNaN(qty) \/ qty[1] < qty[2]) => target = 1
        /\ (~IsNaN(qty) /\ qty[1] >= 9999 * qty[2]) => target = 9999
        /\ (~IsNaN(qty) /\ qty[2] <= qty[1] /\ qty[1] < 9999 * qty[2]) =>
              /\ target * qty[2] <= qty[1]
              /\ qty[1] < (target + 1) * qty[2]
        /\ Len(appStrips) \in 1..target

\* handleGenerate ran with NaN in the quantity input and displays one strip
C17_Witness ==
    /\ AfterGenerate
    /\ IsNaN(qty)
    /\ target = 1
    /\ Len(appStrips) = 1

\* a fractional quantity was floored
C17_WitnessFractional ==
    /\ AfterGenerate
    /\ qty = <<5, 2>>
    /\ target = 2
    /\ Len(appStrips) = 2

\* a quantity above 9999 was clamped, and fewer strips than target are displayed
C17_WitnessAboveCeiling ==
    /\ AfterGenerate
    /\ qty[1] > 9999
    /\ target = 9999
    /\ Len(appStrips) = OverflowStrips

\* the validity date rendered on the cards of strip idx (1-based)
CardValidityShown(idx) ==
    formatDate(IF idx <= Len(stripValidity) /\ stripValidity[idx] # <<>>
               THEN stripValidity[idx]
               ELSE validityDate)

\* C19: the validity date shown on the cards is frozen at generation: after
\* handleGenerate every strip shows the value the validity input has at that
\* moment (the empty value included), and a later edit of the validity input
\* changes the date shown for no existing strip.
C19_ValidityFrozenAtGeneration ==
    /\ [](AfterGenerate =>
            \A idx \in 1..Len(appStrips) :
                CardValidityShown(idx) = formatDate(validityDate))
    /\ [][(pc = "ui_idle" /\ target >= 1 /\ validityDate' # validityDate) =>
            \A idx \in 1..Len(appStrips) :
                CardValidityShown(idx)' = CardValidityShown(idx)]_vars

----------------------------------------------------------------------------
(* Properties of the loop of ticketToGrid *)

GridRunning == pc \in {"grid_loop", "grid_returned"}

\* C21: during ticketToGrid the row counters satisfy rowCounts[0] >=
\* rowCounts[1] >= rowCounts[2] >= rowCounts[0] - 1 and none exceeds 5; the
\* k-th number placed (k from 0) goes to row k mod 3; and the fallback to
\* the next row with spare capacity never places a number: whenever the
\* least-filled row is full, all three rows are full and the number is skipped.
C21_RowCountersRoundRobin ==
    GridRunning =>
        LET rc == ggrid.rowCounts
        IN  /\ rc[0] >= rc[1]
            /\ rc[1] >= rc[2]
            /\ rc[2] >= rc[0] - 1
            /\ \A r \in 0..2 : rc[r] <= 5
            /\ gplaced = rc[0] + rc[1] + rc[2]
            /\ gbranch # "alt"
            /\ gbranch = "least" => gtarget = (gplaced - 1) % 3
            /\ gbranch = "skip" =>
                  /\ gtarget = -1
                  /\ \A r \in 0..2 : rc[r] = 5
            /\ pc = "grid_returned" => ggrid.rows = ticketToGrid(gticket)

\* the 16th number of a card of 16 numbers was skipped with all rows full
C21_Witness ==
    /\ pc = "grid_loop"
    /\ Len(gticket) = 16
    /\ gticket \notin {Interval(1, n) : n \in 0..MaxRun}
    /\ gbranch = "skip"
    /\ gplaced = 15

\* the 14th number of a card went to row 13 mod 3
C21_WitnessFourteenth ==
    /\ pc = "grid_loop"
    /\ gbranch = "least"
    /\ gplaced = 14
    /\ gtarget = 1

\* the UI is settled: no handler runs and no effect is pending
Settled == pc = "ui_idle"

\* stripHashes holds one code for every card of the displayed strips
OneCodePerCard ==
    /\ Len(stripHashes) = Len(appStrips)
    /\ \A i \in 1..Len(appStrips) :
          /\ Len(stripHashes[i]) = Len(appStrips[i])
          /\ \A j \in 1..Len(stripHashes[i]) : IsCode(stripHashes[i][j])

\* C22: in every settled UI state, after the mount and its effect and after
\* any sequence of quantity edits, validity edits and generations of batches
\* of at most 10000 cards, stripValidity has one entry per displayed strip
\* and stripHashes one code per displayed card; the initial screen shows a
\* code on each of the 6 initial cards.
C22_SettledStateIsComplete ==
    Settled =>
        /\ Len(appStrips) >= 1
        /\ Len(stripValidity) = Len(appStrips)
        /\ OneCodePerCard
        /\ TotalLength(appStrips) <= Pow(10, 4)
        /\ target = 0 => TotalLength(stripHashes) = 6

\* the initial screen is settled with its 6 codes, before any generation
C22_Witness ==
    /\ Settled
    /\ target = 0
    /\ Len(appStrips) = 1
    /\ Len(stripHashes[1]) = 6

\* a batch of SmallBatch strips is settled after edits of both inputs
C22_WitnessAfterGeneration ==
    /\ Settled
    /\ Len(appStrips) = SmallBatch
    /\ OneCodePerCard
    /\ validityDate # <<>>
    /\ stripValidity[1] # validityDate
    /\ qty # <<Len(appStrips), 1>>

\* C23: an edit of the quantity input or of the validity input leaves
\* strips, stripHashes and stripValidity unchanged, and the effect that runs
\* after a handleGenerate that returned ends without generating codes: the
\* codes of the displayed cards change only in handleGenerate (and in the
\* effect of the mount, which gives the initial cards their codes).
C23_CodesChangeOnlyOnGeneration ==
    /\ [][(pc = "ui_idle" /\ pc' = "ui_idle") =>
            UNCHANGED <<appStrips, stripHashes, stripValidity>>]_vars
    /\ [][(AfterGenerate /\ uiError = "none") =>
            /\ pc' = "ui_idle"
            /\ UNCHANGED <<appStrips, stripHashes, stripValidity>>]_vars
    /\ [][stripHashes' # stripHashes =>
            \/ caller = "handleGenerate"
            \/ caller = "useEffect" /\ target = 0]_vars

\* the effect has run after a handleGenerate that returned, and the inputs
\* have been edited since the codes were assigned
C23_Witness ==
    /\ Settled
    /\ target >= 1
    /\ uiError = "none"
    /\ OneCodePerCard
    /\ Len(appStrips) = SmallBatch
    /\ qty = NaN
    /\ validityDate # <<>>
    /\ stripValidity[1] = <<>>

\* C24: handleGenerate is atomic on the infeasible-request error: when code
\* generation fails, strips, stripValidity and stripHashes keep their
\* previous values, so the displayed strips still have one code per card.
C24_FailedGenerateKeepsCorrespondence ==
    (AfterGenerate /\ uiError = "handleGenerate") =>
        /\ Len(stripValidity) = Len(stripHashes)
        /\ Len(stripHashes) = Len(appStrips)
        /\ TotalLength(stripHashes) = TotalLength(appStrips)

----------------------------------------------------------------------------
(* The shuffle-and-chunk variant: generateStrip and its ticketToGrid *)

\* the outcomes of Math.random() explored for the one shuffle of generateStrip
MaxChunkSeed == 127
ChunkSeeds == 0..MaxChunkSeed

\* 1..90 shuffled and cut in 6 chunks of 15, each chunk sorted
generateStrip(seed) ==
    LET nums == Interval(1, 90)
        shuffled == shuffle(nums, seed)
    IN  [t \in 1..6 |-> sortAsc(slice(shuffled, (t - 1) * 15, (t - 1) * 15 + 15))]

\* the numbers of the ticket bucketed by decade, each bucket sorted
decadeColumns(ticket) ==
    [c \in 0..8 |->
        sortAsc(SelectSeq(ticket,
                          LAMBDA n : (IF n = 90 THEN 8 ELSE n \div 10) = c))]

\* rows[r][c] = colVals[r] for r below Math.min(3, colVals.length)
ticketToGridTopDown(ticket) ==
    LET columns == decadeColumns(ticket)
    IN  [r \in 0..2 |-> [c \in 0..8 |->
            IF r < Min(3, Len(columns[c])) THEN columns[c][r + 1] ELSE null]]

InitChunk ==
    /\ pc = "chunk_call"
    /\ rnd \in [0..0 -> ChunkSeeds]
    /\ strip = <<>>
    /\ grids = <<>>
    /\ NoBatch
    /\ NoValidation
    /\ NoHashes
    /\ NoApp
    /\ NoGrid

ChunkGenerate ==
    /\ pc = "chunk_call"
    /\ strip' = generateStrip(rnd[0])
    /\ pc' = "chunk_returned"
    /\ UNCHANGED <<rnd, count, strips, seen, guard, generated, warned, result, cand,
                   vstrip, vres, edits, hashVars, grids, appVars>>
    /\ UNCHANGED gridVars

\* the cards of the strip are laid out for display
ChunkRender ==
    /\ pc = "chunk_returned"
    /\ grids' = [k \in 1..Len(strip) |-> ticketToGridTopDown(strip[k])]
    /\ pc' = "chunk_rendered"
    /\ UNCHANGED <<rnd, strip, count, strips, seen, guard, generated, warned,
                   result, cand, vstrip, vres, edits, hashVars, appVars>>
    /\ UNCHANGED gridVars

NextChunk == ChunkGenerate \/ ChunkRender

SpecChunk == InitChunk /\ [][NextChunk]_vars

----------------------------------------------------------------------------
(* Properties of the shuffle-and-chunk variant *)

ChunkRendered == pc = "chunk_rendered"

\* generateStrip returns 6 sorted cards of 15 numbers that partition 1..90
ChunkStripShape ==
    pc \in {"chunk_returned", "chunk_rendered"} =>
        /\ Len(strip) = 6
        /\ \A k \in 1..6 :
              /\ Len(strip[k]) = 15
              /\ \A q \in 1..14 : strip[k][q] < strip[k][q + 1]
        /\ UNION {Range(strip[k]) : k \in 1..6} = 1..90

\* C25: in the shuffle-and-chunk variant every card returned by generateStrip
\* is rendered completely by ticketToGrid: each of its 15 numbers appears in
\* exactly one cell of the 3x9 grid, in the column of its decade, whatever
\* the outcome of the shuffle.
C25_ChunkCardsRenderedCompletely ==
    ChunkRendered =>
        \A k \in 1..Len(grids) :
            \A n \in Range(strip[k]) :
                /\ Cardinality(CellsHolding(grids[k], n)) = 1
                /\ \A rc \in CellsHolding(grids[k], n) : rc[2] = colIndex(n)

\* what the variant does render: the three smallest numbers of each decade
C25_ThreeSmallestPerDecadeRendered ==
    ChunkRendered =>
        \A k \in 1..Len(grids) :
            \A n \in Range(strip[k]) :
                LET below == {m \in Range(strip[k]) :
                                 colIndex(m) = colIndex(n) /\ m < n}
                IN  IF Cardinality(below) < 3
                    THEN CellsHolding(grids[k], n)
                            = {<<Cardinality(below), colIndex(n)>>}
                    ELSE CellsHolding(grids[k], n) = {}

\* a rendered card has lost numbers: more than 3 of its numbers share a decade
C25_Witness ==
    /\ ChunkRendered
    /\ \E k \in 1..Len(grids) :
          \E n \in Range(strip[k]) : CellsHolding(grids[k], n) = {}

====
